---- MODULE Spec2Model ----
(***************************************************************************)
(* Model of the conntrack Flow codec (src/flow.go): NewFlow, Flow.marshal, *)
(* Flow.unmarshal, unmarshalFlow and unmarshalFlows.                       *)
(*                                                                         *)
(* The sub-entity codecs (Tuple, Status, ProtoInfo, Helper, Counter,       *)
(* Security, Timestamp, SequenceAdjust, SynProxy, Num16, Num32) and the    *)
(* netfilter attribute primitive are not part of src/flow.go; they are     *)
(* modelled from sections 3, 4.2-4.4 and 6 of the specification:           *)
(*  - attribute type codes are the names of their constants; the width of  *)
(*    the AttributeType conversion is not modelled;                        *)
(*  - a sub-entity encoder emits the type code section 6 gives for the     *)
(*    field that holds the value;                                          *)
(*  - a sub-entity decoder that fails leaves its field as it was;          *)
(*  - ProtoInfo holds at most one variant.                                 *)
(***************************************************************************)
EXTENDS Integers, Sequences, FiniteSets, TLC

VARIABLES
    pc,     \* the call that produced the current state ("idle" before any call)
    args,   \* the arguments of the last NewFlow call
    f,      \* the Flow built by the caller / NewFlow and handed to marshal
    attrs,  \* the attribute sequence: output of marshal, input of unmarshal
    g,      \* the Flow a decode returned to its caller
    err,    \* the error the last call returned (Nil when none)
    seen,   \* number of attributes the last unmarshal dispatched on
    nlm,    \* the netlink messages handed to unmarshalFlow / unmarshalFlows
    out,    \* the []Flow unmarshalFlows returned
    calls   \* number of unmarshalFlow calls the last unmarshalFlows made

vars == <<pc, args, f, attrs, g, err, seen, nlm, out, calls>>

\* ------------------------------------------------------------------ bounds

\* longest attribute sequence handed to unmarshal
MaxAttrs == 3
\* longest batch of messages handed to unmarshalFlows
MaxMsgs == 3

\* ------------------------------------------------------------------ errors

Nil == <<>>
errNeedTuples == <<"errNeedTuples">>
errBadIPTuple == <<"errBadIPTuple">>
errNested == <<"errNested">>
errIncorrectSize == <<"errIncorrectSize">>
errNetlink == <<"errNetlink">>
errAttributeUnknown(at) == <<"errAttributeUnknown", at>>

\* ------------------------------------------ attribute primitive (netfilter)

\* netfilter.Attribute with a plain value
Attr(t, data) == [Type |-> t, Nested |-> FALSE, Data |-> data, Children |-> <<>>]
\* netfilter.Attribute holding a nested attribute group
NestedAttr(t, ch) == [Type |-> t, Nested |-> TRUE, Data |-> <<>>, Children |-> ch]

\* big-endian scalar encoders and accessors
Uint16Bytes(v) == << (v \div 256) % 256, v % 256 >>
Uint32Bytes(v) == << (v \div 16777216) % 256, (v \div 65536) % 256, (v \div 256) % 256, v % 256 >>
\* the model's 64-bit values stay below 2^31, so the four high bytes are zero
Uint64Bytes(v) == <<0, 0, 0, 0>> \o Uint32Bytes(v)
Attr_Uint16(a) == a.Data[1] * 256 + a.Data[2]
Attr_Uint32(a) == a.Data[1] * 16777216 + a.Data[2] * 65536 + a.Data[3] * 256 + a.Data[4]
Attr_Uint64(a) ==
    (a.Data[1] + a.Data[2] + a.Data[3] + a.Data[4]) * 2147483647
    + a.Data[5] * 16777216 + a.Data[6] * 65536 + a.Data[7] * 256 + a.Data[8]

\* a nested attribute whose group holds exactly the child types `types`, in order
HasChildren(a, types) ==
    /\ a.Nested
    /\ Len(a.Children) = Len(types)
    /\ \A i \in 1..Len(types) : a.Children[i].Type = types[i]

\* ------------------------------------------------------------ scalar wrappers

Num16_MarshalAttribute(v, t) == Attr(t, Uint16Bytes(v))
Num32_MarshalAttribute(v, t) == Attr(t, Uint32Bytes(v))

\* ---------------------------------------------------------------------- Tuple

ZeroTuple ==
    [IP |-> [SourceAddress |-> <<>>, DestinationAddress |-> <<>>],
     Proto |-> [Protocol |-> 0, SourcePort |-> 0, DestinationPort |-> 0]]

\* both addresses set and the protocol nonzero
Tuple_Filled(t) ==
    /\ Len(t.IP.SourceAddress) # 0
    /\ Len(t.IP.DestinationAddress) # 0
    /\ t.Proto.Protocol # 0

\* the address family follows from the byte length: 4 (IPv4) or 16 (IPv6)
IPTuple_MarshalAttribute(ip) ==
    LET ls == Len(ip.SourceAddress)
        ld == Len(ip.DestinationAddress)
    IN  IF ls = 4 /\ ld = 4
        THEN [attr |-> NestedAttr("CTATupleIP",
                          <<Attr("CTAIPv4Src", ip.SourceAddress),
                            Attr("CTAIPv4Dst", ip.DestinationAddress)>>),
              err |-> Nil]
        ELSE IF ls = 16 /\ ld = 16
        THEN [attr |-> NestedAttr("CTATupleIP",
                          <<Attr("CTAIPv6Src", ip.SourceAddress),
                            Attr("CTAIPv6Dst", ip.DestinationAddress)>>),
              err |-> Nil]
        ELSE [attr |-> Attr("CTAUnspec", <<>>), err |-> errBadIPTuple]

ProtoTuple_MarshalAttribute(p) ==
    NestedAttr("CTATupleProto",
        <<Attr("CTAProtoNum", <<p.Protocol % 256>>),
          Attr("CTAProtoSrcPort", Uint16Bytes(p.SourcePort)),
          Attr("CTAProtoDstPort", Uint16Bytes(p.DestinationPort))>>)

Tuple_MarshalAttribute(t, at) ==
    LET ip == IPTuple_MarshalAttribute(t.IP)
    IN  IF ip.err # Nil
        THEN [attr |-> Attr("CTAUnspec", <<>>), err |-> ip.err]
        ELSE [attr |-> NestedAttr(at, <<ip.attr, ProtoTuple_MarshalAttribute(t.Proto)>>),
              err |-> Nil]

IPTuple_UnmarshalAttribute(a) ==
    IF HasChildren(a, <<"CTAIPv4Src", "CTAIPv4Dst">>)
       /\ Len(a.Children[1].Data) = 4 /\ Len(a.Children[2].Data) = 4
    THEN [val |-> [SourceAddress |-> a.Children[1].Data,
                   DestinationAddress |-> a.Children[2].Data], err |-> Nil]
    ELSE IF HasChildren(a, <<"CTAIPv6Src", "CTAIPv6Dst">>)
            /\ Len(a.Children[1].Data) = 16 /\ Len(a.Children[2].Data) = 16
    THEN [val |-> [SourceAddress |-> a.Children[1].Data,
                   DestinationAddress |-> a.Children[2].Data], err |-> Nil]
    ELSE [val |-> ZeroTuple.IP, err |-> errBadIPTuple]

ProtoTuple_UnmarshalAttribute(a) ==
    IF HasChildren(a, <<"CTAProtoNum", "CTAProtoSrcPort", "CTAProtoDstPort">>)
       /\ Len(a.Children[1].Data) = 1
       /\ Len(a.Children[2].Data) = 2 /\ Len(a.Children[3].Data) = 2
    THEN [val |-> [Protocol |-> a.Children[1].Data[1],
                   SourcePort |-> Attr_Uint16(a.Children[2]),
                   DestinationPort |-> Attr_Uint16(a.Children[3])], err |-> Nil]
    ELSE [val |-> ZeroTuple.Proto, err |-> errIncorrectSize]

\* decode of a CTA_TUPLE_* attribute into the tuple t; t is kept on error
Tuple_UnmarshalAttribute(t, a) ==
    IF ~HasChildren(a, <<"CTATupleIP", "CTATupleProto">>)
    THEN [val |-> t, err |-> errNested]
    ELSE LET ip == IPTuple_UnmarshalAttribute(a.Children[1])
             pr == ProtoTuple_UnmarshalAttribute(a.Children[2])
         IN  IF ip.err # Nil THEN [val |-> t, err |-> ip.err]
             ELSE IF pr.err # Nil THEN [val |-> t, err |-> pr.err]
             ELSE [val |-> [IP |-> ip.val, Proto |-> pr.val], err |-> Nil]

\* --------------------------------------------------------------------- Status

ZeroStatus == [Value |-> 0]

Status_MarshalAttribute(s) == Attr("CTAStatus", Uint32Bytes(s.Value))

Status_UnmarshalAttribute(s, a) ==
    IF a.Nested \/ Len(a.Data) # 4
    THEN [val |-> s, err |-> errIncorrectSize]
    ELSE [val |-> [Value |-> Attr_Uint32(a)], err |-> Nil]

\* ------------------------------------------------------------------ ProtoInfo

\* tagged union over {TCP, DCCP, SCTP}; "none" when no variant is populated
ZeroProtoInfo == [Variant |-> "none", State |-> 0]

ProtoInfoTypes == {"CTAProtoInfoTCP", "CTAProtoInfoDCCP", "CTAProtoInfoSCTP"}

ProtoInfo_Filled(pi) == pi.Variant # "none"

ProtoInfo_MarshalAttribute(pi) ==
    NestedAttr("CTAProtoInfo",
        <<NestedAttr(CASE pi.Variant = "TCP" -> "CTAProtoInfoTCP"
                       [] pi.Variant = "DCCP" -> "CTAProtoInfoDCCP"
                       [] OTHER -> "CTAProtoInfoSCTP",
                     <<Attr("CTAProtoInfoState", <<pi.State % 256>>)>>)>>)

ProtoInfo_UnmarshalAttribute(pi, a) ==
    IF a.Nested /\ Len(a.Children) = 1
       /\ a.Children[1].Type \in ProtoInfoTypes
       /\ HasChildren(a.Children[1], <<"CTAProtoInfoState">>)
       /\ Len(a.Children[1].Children[1].Data) = 1
    THEN [val |-> [Variant |-> CASE a.Children[1].Type = "CTAProtoInfoTCP" -> "TCP"
                                 [] a.Children[1].Type = "CTAProtoInfoDCCP" -> "DCCP"
                                 [] OTHER -> "SCTP",
                   State |-> a.Children[1].Children[1].Data[1]],
          err |-> Nil]
    ELSE [val |-> pi, err |-> errNested]

\* --------------------------------------------------------------------- Helper

ZeroHelper == [Name |-> <<>>, Info |-> <<>>]

Helper_Filled(h) == Len(h.Name) # 0 \/ Len(h.Info) # 0

Helper_MarshalAttribute(h) ==
    NestedAttr("CTAHelp", <<Attr("CTAHelpName", h.Name), Attr("CTAHelpInfo", h.Info)>>)

Helper_UnmarshalAttribute(h, a) ==
    IF HasChildren(a, <<"CTAHelpName", "CTAHelpInfo">>)
    THEN [val |-> [Name |-> a.Children[1].Data, Info |-> a.Children[2].Data], err |-> Nil]
    ELSE [val |-> h, err |-> errNested]

\* -------------------------------------------------------------------- Counter

ZeroCounter == [Packets |-> 0, Bytes |-> 0]

Counter_UnmarshalAttribute(c, a) ==
    IF HasChildren(a, <<"CTACountersPackets", "CTACountersBytes">>)
       /\ Len(a.Children[1].Data) = 8 /\ Len(a.Children[2].Data) = 8
    THEN [val |-> [Packets |-> Attr_Uint64(a.Children[1]),
                   Bytes |-> Attr_Uint64(a.Children[2])], err |-> Nil]
    ELSE [val |-> c, err |-> errNested]

\* ------------------------------------------------------------------- Security

ZeroSecurity == <<>>

Security_UnmarshalAttribute(s, a) ==
    IF HasChildren(a, <<"CTASecCtxName">>)
    THEN [val |-> a.Children[1].Data, err |-> Nil]
    ELSE [val |-> s, err |-> errNested]

\* ------------------------------------------------------------------ Timestamp

ZeroTimestamp == [Start |-> 0, Stop |-> 0]

\* the stop time is optional: absent (zero) while the connection is open
Timestamp_UnmarshalAttribute(ts, a) ==
    IF HasChildren(a, <<"CTATimestampStart">>) /\ Len(a.Children[1].Data) = 8
    THEN [val |-> [Start |-> Attr_Uint64(a.Children[1]), Stop |-> 0], err |-> Nil]
    ELSE IF HasChildren(a, <<"CTATimestampStart", "CTATimestampStop">>)
            /\ Len(a.Children[1].Data) = 8 /\ Len(a.Children[2].Data) = 8
    THEN [val |-> [Start |-> Attr_Uint64(a.Children[1]),
                   Stop |-> Attr_Uint64(a.Children[2])], err |-> Nil]
    ELSE [val |-> ts, err |-> errNested]

\* ------------------------------------------------------------- SequenceAdjust

ZeroSequenceAdjust == [Position |-> 0, OffsetBefore |-> 0, OffsetAfter |-> 0]

SequenceAdjust_Filled(seq) == seq # ZeroSequenceAdjust

\* `at` is the direction the value belongs to: CTASeqAdjOrig or CTASeqAdjReply
SequenceAdjust_MarshalAttribute(seq, at) ==
    NestedAttr(at,
        <<Attr("CTASeqAdjCorrectionPos", Uint32Bytes(seq.Position)),
          Attr("CTASeqAdjOffsetBefore", Uint32Bytes(seq.OffsetBefore)),
          Attr("CTASeqAdjOffsetAfter", Uint32Bytes(seq.OffsetAfter))>>)

SequenceAdjust_UnmarshalAttribute(seq, a) ==
    IF HasChildren(a, <<"CTASeqAdjCorrectionPos", "CTASeqAdjOffsetBefore", "CTASeqAdjOffsetAfter">>)
       /\ \A i \in 1..3 : Len(a.Children[i].Data) = 4
    THEN [val |-> [Position |-> Attr_Uint32(a.Children[1]),
                   OffsetBefore |-> Attr_Uint32(a.Children[2]),
                   OffsetAfter |-> Attr_Uint32(a.Children[3])], err |-> Nil]
    ELSE [val |-> seq, err |-> errNested]

\* ------------------------------------------------------------------- SynProxy

ZeroSynProxy == [ISN |-> 0, Options |-> <<>>, WScale |-> 0]

SynProxy_Filled(sp) == sp # ZeroSynProxy

SynProxy_MarshalAttribute(sp) ==
    NestedAttr("CTASynProxy",
        <<Attr("CTASynProxyISN", Uint32Bytes(sp.ISN)),
          Attr("CTASynProxyOptions", sp.Options),
          Attr("CTASynProxyWScale", <<sp.WScale % 256>>)>>)

SynProxy_UnmarshalAttribute(sp, a) ==
    IF HasChildren(a, <<"CTASynProxyISN", "CTASynProxyOptions", "CTASynProxyWScale">>)
       /\ Len(a.Children[1].Data) = 4 /\ Len(a.Children[3].Data) = 1
    THEN [val |-> [ISN |-> Attr_Uint32(a.Children[1]),
                   Options |-> a.Children[2].Data,
                   WScale |-> a.Children[3].Data[1]], err |-> Nil]
    ELSE [val |-> sp, err |-> errNested]

\* ----------------------------------------------------------------------- Flow

\* the zero value of Flow (var f Flow)
ZeroFlow ==
    [ID |-> 0, Timeout |-> 0, Timestamp |-> ZeroTimestamp,
     Status |-> ZeroStatus, ProtoInfo |-> ZeroProtoInfo, Helper |-> ZeroHelper,
     Zone |-> 0,
     CountersOrig |-> ZeroCounter, CountersReply |-> ZeroCounter,
     SecurityContext |-> ZeroSecurity,
     TupleOrig |-> ZeroTuple, TupleReply |-> ZeroTuple, TupleMaster |-> ZeroTuple,
     SeqAdjOrig |-> ZeroSequenceAdjust, SeqAdjReply |-> ZeroSequenceAdjust,
     Labels |-> <<>>, LabelsMask |-> <<>>,
     Mark |-> 0, Use |-> 0,
     SynProxy |-> ZeroSynProxy]

\* NewFlow with the reply tuple's ports left in the original direction
NewFlowPortsNotSwapped(proto, status, srcAddr, destAddr, srcPort, destPort, timeout, mark) ==
    [ZeroFlow EXCEPT
        !.Status.Value = status,
        !.Timeout = timeout,
        !.Mark = mark,
        !.TupleOrig.IP.SourceAddress = srcAddr,
        !.TupleOrig.IP.DestinationAddress = destAddr,
        !.TupleOrig.Proto.SourcePort = srcPort,
        !.TupleOrig.Proto.DestinationPort = destPort,
        !.TupleOrig.Proto.Protocol = proto,
        !.TupleReply.IP.SourceAddress = destAddr,
        !.TupleReply.IP.DestinationAddress = srcAddr,
        !.TupleReply.Proto.SourcePort = srcPort,
        !.TupleReply.Proto.DestinationPort = destPort,
        !.TupleReply.Proto.Protocol = proto]

NewFlow(proto, status, srcAddr, destAddr, srcPort, destPort, timeout, mark) ==
    [ZeroFlow EXCEPT
        !.Status.Value = status,
        !.Timeout = timeout,
        !.Mark = mark,
        !.TupleOrig.IP.SourceAddress = srcAddr,
        !.TupleOrig.IP.DestinationAddress = destAddr,
        !.TupleOrig.Proto.SourcePort = srcPort,
        !.TupleOrig.Proto.DestinationPort = destPort,
        !.TupleOrig.Proto.Protocol = proto,
        !.TupleReply.IP.SourceAddress = destAddr,
        !.TupleReply.IP.DestinationAddress = srcAddr,
        !.TupleReply.Proto.SourcePort = destPort,
        !.TupleReply.Proto.DestinationPort = srcPort,
        !.TupleReply.Proto.Protocol = proto]

\* --------------------------------------------------------------- Flow.marshal

\* the tuple check with && in place of ||
NeedTuplesBoth(fl) == ~Tuple_Filled(fl.TupleOrig) /\ ~Tuple_Filled(fl.TupleReply)

\* if !f.TupleOrig.Filled() || !f.TupleReply.Filled()
NeedTuples(fl) == ~Tuple_Filled(fl.TupleOrig) \/ ~Tuple_Filled(fl.TupleReply)

\* if f.Timeout != 0 { append CTATimeout }
AppendTimeout(fl, as) ==
    IF fl.Timeout # 0 THEN Append(as, Num32_MarshalAttribute(fl.Timeout, "CTATimeout")) ELSE as

\* if f.Status.Value != 0 { append CTAStatus }
AppendStatus(fl, as) ==
    IF fl.Status.Value # 0 THEN Append(as, Status_MarshalAttribute(fl.Status)) ELSE as

\* the mark emitted under the timeout's type code
AppendMarkAsTimeout(fl, as) ==
    IF fl.Mark # 0 THEN Append(as, Num32_MarshalAttribute(fl.Mark, "CTATimeout")) ELSE as

\* if f.Mark != 0 { append CTAMark }
AppendMark(fl, as) ==
    IF fl.Mark # 0 THEN Append(as, Num32_MarshalAttribute(fl.Mark, "CTAMark")) ELSE as

\* the zone emitted without the zero check
AppendZoneAlways(fl, as) == Append(as, Num16_MarshalAttribute(fl.Zone, "CTAZone"))

\* if f.Zone != 0 { append CTAZone }
AppendZone(fl, as) ==
    IF fl.Zone # 0 THEN Append(as, Num16_MarshalAttribute(fl.Zone, "CTAZone")) ELSE as

\* if f.ProtoInfo.Filled() { append CTAProtoInfo }
AppendProtoInfo(fl, as) ==
    IF ProtoInfo_Filled(fl.ProtoInfo) THEN Append(as, ProtoInfo_MarshalAttribute(fl.ProtoInfo)) ELSE as

\* if f.Helper.Filled() { append CTAHelp }
AppendHelper(fl, as) ==
    IF Helper_Filled(fl.Helper) THEN Append(as, Helper_MarshalAttribute(fl.Helper)) ELSE as

\* if f.SeqAdjOrig.Filled() { append CTASeqAdjOrig }
AppendSeqAdjOrig(fl, as) ==
    IF SequenceAdjust_Filled(fl.SeqAdjOrig)
    THEN Append(as, SequenceAdjust_MarshalAttribute(fl.SeqAdjOrig, "CTASeqAdjOrig")) ELSE as

\* if f.SeqAdjReply.Filled() { append CTASeqAdjReply }
AppendSeqAdjReply(fl, as) ==
    IF SequenceAdjust_Filled(fl.SeqAdjReply)
    THEN Append(as, SequenceAdjust_MarshalAttribute(fl.SeqAdjReply, "CTASeqAdjReply")) ELSE as

\* if f.SynProxy.Filled() { append CTASynProxy }
AppendSynProxy(fl, as) ==
    IF SynProxy_Filled(fl.SynProxy) THEN Append(as, SynProxy_MarshalAttribute(fl.SynProxy)) ELSE as

\* the attributes that follow TupleMaster, in the order the code appends them
AppendAfterMaster(fl, as) ==
    AppendSynProxy(fl, AppendSeqAdjReply(fl, AppendSeqAdjOrig(fl, as)))

\* Mark appended before Status
AppendBeforeMasterMarkFirst(fl, as) ==
    AppendHelper(fl, AppendProtoInfo(fl, AppendZone(fl,
        AppendStatus(fl, AppendMark(fl, AppendTimeout(fl, as))))))

\* the attributes between the two required tuples and TupleMaster
AppendBeforeMaster(fl, as) ==
    AppendHelper(fl, AppendProtoInfo(fl, AppendZone(fl,
        AppendMark(fl, AppendStatus(fl, AppendTimeout(fl, as))))))

\* func (f Flow) marshal() ([]netfilter.Attribute, error); a nil slice is <<>>
Flow_marshal(fl) ==
    IF NeedTuples(fl) THEN [attrs |-> <<>>, err |-> errNeedTuples]
    ELSE
    LET to == Tuple_MarshalAttribute(fl.TupleOrig, "CTATupleOrig") IN
    IF to.err # Nil THEN [attrs |-> <<>>, err |-> to.err]
    ELSE
    LET tr == Tuple_MarshalAttribute(fl.TupleReply, "CTATupleReply") IN
    IF tr.err # Nil THEN [attrs |-> <<>>, err |-> tr.err]
    ELSE
    LET opt == AppendBeforeMaster(fl, <<to.attr, tr.attr>>)
        tm == Tuple_MarshalAttribute(fl.TupleMaster, "CTATupleMaster")
    IN
    IF Tuple_Filled(fl.TupleMaster) /\ tm.err # Nil THEN [attrs |-> <<>>, err |-> tm.err]
    ELSE
    [attrs |-> AppendAfterMaster(fl,
                   IF Tuple_Filled(fl.TupleMaster) THEN Append(opt, tm.attr) ELSE opt),
     err |-> Nil]

\* ------------------------------------------------------------- Flow.unmarshal

\* the type codes the switch of Flow.unmarshal has a case for
KnownTypes ==
    {"CTATimeout", "CTAID", "CTAUse", "CTAMark", "CTAZone", "CTALabels", "CTALabelsMask",
     "CTATupleOrig", "CTATupleReply", "CTATupleMaster", "CTAStatus", "CTAProtoInfo",
     "CTAHelp", "CTACountersOrig", "CTACountersReply", "CTASecCtx", "CTATimestamp",
     "CTASeqAdjOrig", "CTASeqAdjReply", "CTASynProxy"}

\* a case that delegates to a sub-entity decoder: the field is assigned through the
\* pointer receiver, the decoder's error is returned unchanged
Delegate(fl, r, set) == [f |-> IF r.err = Nil THEN set ELSE fl, err |-> r.err]

\* the cases of the switch for the known attribute types
KnownCase(fl, a) ==
    CASE a.Type = "CTATimeout" -> [f |-> [fl EXCEPT !.Timeout = Attr_Uint32(a)], err |-> Nil]
      [] a.Type = "CTAID" -> [f |-> [fl EXCEPT !.ID = Attr_Uint32(a)], err |-> Nil]
      [] a.Type = "CTAUse" -> [f |-> [fl EXCEPT !.Use = Attr_Uint32(a)], err |-> Nil]
      [] a.Type = "CTAMark" -> [f |-> [fl EXCEPT !.Mark = Attr_Uint32(a)], err |-> Nil]
      [] a.Type = "CTAZone" -> [f |-> [fl EXCEPT !.Zone = Attr_Uint16(a)], err |-> Nil]
      [] a.Type = "CTALabels" -> [f |-> [fl EXCEPT !.Labels = a.Data], err |-> Nil]
      [] a.Type = "CTALabelsMask" -> [f |-> [fl EXCEPT !.LabelsMask = a.Data], err |-> Nil]
      [] a.Type = "CTATupleOrig" ->
            LET r == Tuple_UnmarshalAttribute(fl.TupleOrig, a)
            IN  Delegate(fl, r, [fl EXCEPT !.TupleOrig = r.val])
      [] a.Type = "CTATupleReply" ->
            LET r == Tuple_UnmarshalAttribute(fl.TupleReply, a)
            IN  Delegate(fl, r, [fl EXCEPT !.TupleReply = r.val])
      [] a.Type = "CTATupleMaster" ->
            LET r == Tuple_UnmarshalAttribute(fl.TupleMaster, a)
            IN  Delegate(fl, r, [fl EXCEPT !.TupleMaster = r.val])
      [] a.Type = "CTAStatus" ->
            LET r == Status_UnmarshalAttribute(fl.Status, a)
            IN  Delegate(fl, r, [fl EXCEPT !.Status = r.val])
      [] a.Type = "CTAProtoInfo" ->
            LET r == ProtoInfo_UnmarshalAttribute(fl.ProtoInfo, a)
            IN  Delegate(fl, r, [fl EXCEPT !.ProtoInfo = r.val])
      [] a.Type = "CTAHelp" ->
            LET r == Helper_UnmarshalAttribute(fl.Helper, a)
            IN  Delegate(fl, r, [fl EXCEPT !.Helper = r.val])
      [] a.Type = "CTACountersOrig" ->
            LET r == Counter_UnmarshalAttribute(fl.CountersOrig, a)
            IN  Delegate(fl, r, [fl EXCEPT !.CountersOrig = r.val])
      [] a.Type = "CTACountersReply" ->
            LET r == Counter_UnmarshalAttribute(fl.CountersReply, a)
            IN  Delegate(fl, r, [fl EXCEPT !.CountersReply = r.val])
      [] a.Type = "CTASecCtx" ->
            LET r == Security_UnmarshalAttribute(fl.SecurityContext, a)
            IN  Delegate(fl, r, [fl EXCEPT !.SecurityContext = r.val])
      [] a.Type = "CTATimestamp" ->
            LET r == Timestamp_UnmarshalAttribute(fl.Timestamp, a)
            IN  Delegate(fl, r, [fl EXCEPT !.Timestamp = r.val])
      [] a.Type = "CTASeqAdjOrig" ->
            LET r == SequenceAdjust_UnmarshalAttribute(fl.SeqAdjOrig, a)
            IN  Delegate(fl, r, [fl EXCEPT !.SeqAdjOrig = r.val])
      [] a.Type = "CTASeqAdjReply" ->
            LET r == SequenceAdjust_UnmarshalAttribute(fl.SeqAdjReply, a)
            IN  Delegate(fl, r, [fl EXCEPT !.SeqAdjReply = r.val])
      [] a.Type = "CTASynProxy" ->
            LET r == SynProxy_UnmarshalAttribute(fl.SynProxy, a)
            IN  Delegate(fl, r, [fl EXCEPT !.SynProxy = r.val])

\* the switch with a default case that skips the attribute
UnmarshalAttrSkipUnknown(fl, a) ==
    IF a.Type \in KnownTypes
    THEN KnownCase(fl, a)
    ELSE [f |-> fl, err |-> Nil]

\* the switch with the CTAID case writing f.Use
UnmarshalAttrIDIntoUse(fl, a) ==
    IF a.Type = "CTAID"
    THEN [f |-> [fl EXCEPT !.Use = Attr_Uint32(a)], err |-> Nil]
    ELSE IF a.Type \in KnownTypes
    THEN KnownCase(fl, a)
    ELSE [f |-> fl, err |-> errAttributeUnknown(a.Type)]

\* the switch on the attribute's type, with its default case
UnmarshalAttr(fl, a) ==
    IF a.Type \in KnownTypes
    THEN KnownCase(fl, a)
    ELSE [f |-> fl, err |-> errAttributeUnknown(a.Type)]

\* the loop remembering the first error and going on to the end of attrs
RECURSIVE UnmarshalLoopGoesOn(_, _, _, _)
UnmarshalLoopGoesOn(fl, as, n, e) ==
    IF as = <<>> THEN [f |-> fl, err |-> e, seen |-> n]
    ELSE LET r == UnmarshalAttr(fl, Head(as))
         IN  UnmarshalLoopGoesOn(r.f, Tail(as), n + 1, IF e = Nil THEN r.err ELSE e)

UnmarshalLoopNoAbort(fl, as, n) == UnmarshalLoopGoesOn(fl, as, n, Nil)

\* func (f *Flow) unmarshal(attrs []netfilter.Attribute) error: the loop over attrs,
\* returning at the first error. f is the receiver after the call, seen the number of
\* attributes the switch was entered for.
RECURSIVE UnmarshalLoop(_, _, _)
UnmarshalLoop(fl, as, n) ==
    IF as = <<>> THEN [f |-> fl, err |-> Nil, seen |-> n]
    ELSE LET r == UnmarshalAttr(fl, Head(as))
         IN  IF r.err # Nil
             THEN [f |-> r.f, err |-> r.err, seen |-> n + 1]
             ELSE UnmarshalLoop(r.f, Tail(as), n + 1)

Flow_unmarshal(fl, as) == UnmarshalLoop(fl, as, 0)

\* ------------------------------------------------------------- batch decode

\* netfilter.UnmarshalNetlink: unwraps a message to its attribute sequence, or fails
UnmarshalNetlink(m) ==
    IF m.Malformed THEN [attrs |-> <<>>, err |-> errNetlink]
    ELSE [attrs |-> m.Attrs, err |-> Nil]

\* func unmarshalFlow(nlm netlink.Message) (Flow, error)
unmarshalFlow(m) ==
    LET q == UnmarshalNetlink(m)
    IN  IF q.err # Nil THEN [f |-> ZeroFlow, err |-> q.err]
        ELSE LET r == Flow_unmarshal(ZeroFlow, q.attrs)
             IN  [f |-> r.f, err |-> r.err]

\* the loop returning what it decoded so far together with the error
RECURSIVE unmarshalFlowsLoopPartial(_, _, _)
unmarshalFlowsLoopPartial(ms, i, acc) ==
    IF i > Len(ms) THEN [out |-> acc, err |-> Nil, calls |-> i - 1]
    ELSE LET r == unmarshalFlow(ms[i])
         IN  IF r.err # Nil
             THEN [out |-> acc, err |-> r.err, calls |-> i]
             ELSE unmarshalFlowsLoopPartial(ms, i + 1, Append(acc, r.f))

\* the loop putting each Flow in front of the ones decoded before it
RECURSIVE unmarshalFlowsLoopPrepend(_, _, _)
unmarshalFlowsLoopPrepend(ms, i, acc) ==
    IF i > Len(ms) THEN [out |-> acc, err |-> Nil, calls |-> i - 1]
    ELSE LET r == unmarshalFlow(ms[i])
         IN  IF r.err # Nil
             THEN [out |-> <<>>, err |-> r.err, calls |-> i]
             ELSE unmarshalFlowsLoopPrepend(ms, i + 1, <<r.f>> \o acc)

\* the loop of unmarshalFlows from index i (1-based) with `acc` decoded so far
RECURSIVE unmarshalFlowsLoop(_, _, _)
unmarshalFlowsLoop(ms, i, acc) ==
    IF i > Len(ms) THEN [out |-> acc, err |-> Nil, calls |-> i - 1]
    ELSE LET r == unmarshalFlow(ms[i])
         IN  IF r.err # Nil
             THEN [out |-> <<>>, err |-> r.err, calls |-> i]
             ELSE unmarshalFlowsLoop(ms, i + 1, Append(acc, r.f))

\* func unmarshalFlows(nlm []netlink.Message) ([]Flow, error)
unmarshalFlows(ms) == unmarshalFlowsLoop(ms, 1, <<>>)

\* ------------------------------------------------------------------- inputs

Addr4a == <<10, 0, 0, 1>>
Addr4b == <<10, 0, 0, 2>>
Addr6 == <<32, 1, 13, 184, 0, 0, 0, 0, 0, 0, 0, 0, 0, 0, 0, 1>>
AddrBad == <<1, 2, 3>>

MkTuple(src, dst, proto, sp, dp) ==
    [IP |-> [SourceAddress |-> src, DestinationAddress |-> dst],
     Proto |-> [Protocol |-> proto, SourcePort |-> sp, DestinationPort |-> dp]]

T4 == MkTuple(Addr4a, Addr4b, 6, 1234, 80)
T4r == MkTuple(Addr4b, Addr4a, 6, 80, 1234)
T6 == MkTuple(Addr6, Addr6, 17, 53, 53)
TBad == MkTuple(AddrBad, Addr4b, 6, 1234, 80)
TNoProto == MkTuple(Addr4a, Addr4b, 0, 1234, 80)

\* a tuple MarshalAttribute accepts: both addresses of one family
ValidAddrs(t) ==
    \/ Len(t.IP.SourceAddress) = 4 /\ Len(t.IP.DestinationAddress) = 4
    \/ Len(t.IP.SourceAddress) = 16 /\ Len(t.IP.DestinationAddress) = 16

\* values a caller puts into the fields of a Flow before marshal
TupleInputs == {ZeroTuple, T4, TBad, TNoProto}
MasterInputs == {ZeroTuple, T6, TBad}
U32Inputs == {0, 120}
ZoneInputs == {0, 7}
ProtoInfoInputs == {ZeroProtoInfo, [Variant |-> "TCP", State |-> 3]}
HelperInputs == {ZeroHelper, [Name |-> <<102, 116, 112>>, Info |-> <<1>>]}
SeqAdjInputs == {ZeroSequenceAdjust, [Position |-> 5, OffsetBefore |-> 1, OffsetAfter |-> 2]}
SynProxyInputs == {ZeroSynProxy, [ISN |-> 300, Options |-> <<2, 4>>, WScale |-> 7]}

\* the fields marshal has no attribute for, all zero or all set
KernelOnlyZero ==
    [ID |-> 0, Use |-> 0, Labels |-> <<>>, LabelsMask |-> <<>>,
     CountersOrig |-> ZeroCounter, CountersReply |-> ZeroCounter,
     SecurityContext |-> ZeroSecurity, Timestamp |-> ZeroTimestamp]
KernelOnlySet ==
    [ID |-> 99, Use |-> 2, Labels |-> <<1, 0>>, LabelsMask |-> <<255, 255>>,
     CountersOrig |-> [Packets |-> 4, Bytes |-> 400],
     CountersReply |-> [Packets |-> 3, Bytes |-> 300],
     SecurityContext |-> <<115, 101>>, Timestamp |-> [Start |-> 1000, Stop |-> 2000]]
KernelOnlyInputs == {KernelOnlyZero, KernelOnlySet}

WithKernelOnly(fl, k) ==
    [fl EXCEPT !.ID = k.ID, !.Use = k.Use, !.Labels = k.Labels, !.LabelsMask = k.LabelsMask,
               !.CountersOrig = k.CountersOrig, !.CountersReply = k.CountersReply,
               !.SecurityContext = k.SecurityContext, !.Timestamp = k.Timestamp]

\* well-formed attributes of the types marshal never emits, as the kernel sends them
AttrID == Attr("CTAID", Uint32Bytes(99))
AttrUse == Attr("CTAUse", Uint32Bytes(2))
AttrLabels == Attr("CTALabels", <<1, 0>>)
AttrLabelsMask == Attr("CTALabelsMask", <<255, 255>>)
AttrCounters(t, c) ==
    NestedAttr(t, <<Attr("CTACountersPackets", Uint64Bytes(c.Packets)),
                    Attr("CTACountersBytes", Uint64Bytes(c.Bytes))>>)
AttrSecCtx == NestedAttr("CTASecCtx", <<Attr("CTASecCtxName", <<115, 101>>)>>)
AttrTimestamp ==
    NestedAttr("CTATimestamp", <<Attr("CTATimestampStart", Uint64Bytes(1000)),
                                 Attr("CTATimestampStop", Uint64Bytes(2000))>>)

\* attributes of types the switch has no case for
UnknownAttrs == {Attr("CTAUnspec", <<>>), Attr("CTANatSrc", <<1>>)}
\* attributes of a known type whose sub-entity decoder fails
MalformedAttrs == {Attr("CTAStatus", <<0, 8>>), Attr("CTATupleMaster", <<1>>)}

\* one or two well-formed attributes of every known type
WellFormedAttrs ==
    {Num32_MarshalAttribute(120, "CTATimeout"), Num32_MarshalAttribute(30, "CTATimeout"),
     AttrID, AttrUse, Num32_MarshalAttribute(7, "CTAMark"), Num16_MarshalAttribute(7, "CTAZone"),
     AttrLabels, AttrLabelsMask,
     Tuple_MarshalAttribute(T4, "CTATupleOrig").attr,
     Tuple_MarshalAttribute(T6, "CTATupleOrig").attr,
     Tuple_MarshalAttribute(T4r, "CTATupleReply").attr,
     Tuple_MarshalAttribute(T6, "CTATupleMaster").attr,
     Status_MarshalAttribute([Value |-> 8]),
     ProtoInfo_MarshalAttribute([Variant |-> "TCP", State |-> 3]),
     Helper_MarshalAttribute([Name |-> <<102, 116, 112>>, Info |-> <<1>>]),
     AttrCounters("CTACountersOrig", [Packets |-> 4, Bytes |-> 400]),
     AttrCounters("CTACountersReply", [Packets |-> 3, Bytes |-> 300]),
     AttrSecCtx, AttrTimestamp,
     SequenceAdjust_MarshalAttribute([Position |-> 5, OffsetBefore |-> 1, OffsetAfter |-> 2], "CTASeqAdjOrig"),
     SequenceAdjust_MarshalAttribute([Position |-> 6, OffsetBefore |-> 2, OffsetAfter |-> 1], "CTASeqAdjReply"),
     SynProxy_MarshalAttribute([ISN |-> 300, Options |-> <<2, 4>>, WScale |-> 7])}

FullPool == WellFormedAttrs \cup UnknownAttrs \cup MalformedAttrs

\* the attributes that make up the longest sequences
SmallPool ==
    {Num32_MarshalAttribute(120, "CTATimeout"), Num32_MarshalAttribute(30, "CTATimeout"),
     Num32_MarshalAttribute(7, "CTAMark"), AttrID,
     Tuple_MarshalAttribute(T4, "CTATupleOrig").attr,
     Attr("CTAStatus", <<0, 8>>)} \cup UnknownAttrs

SeqsUpTo(S, n) == UNION {[1..k -> S] : k \in 0..n}

\* the attribute sequences handed to unmarshal
AttrInputs == SeqsUpTo(SmallPool, MaxAttrs) \cup SeqsUpTo(FullPool, MaxAttrs - 1)

Msg(as) == [Malformed |-> FALSE, Attrs |-> as]
MsgMalformed == [Malformed |-> TRUE, Attrs |-> <<>>]

\* the messages handed to unmarshalFlow
MsgInputs == {MsgMalformed} \cup {Msg(as) : as \in AttrInputs}

\* the messages batches are made of
BatchPool ==
    {Msg(<<>>),
     Msg(<<Num32_MarshalAttribute(120, "CTATimeout"), Tuple_MarshalAttribute(T4, "CTATupleOrig").attr>>),
     Msg(<<AttrID, Num32_MarshalAttribute(7, "CTAMark")>>),
     Msg(<<AttrID, Attr("CTAUnspec", <<>>), AttrUse>>),
     Msg(<<Attr("CTANatSrc", <<1>>)>>),
     Msg(<<AttrUse, Attr("CTAStatus", <<0, 8>>)>>),
     MsgMalformed}

BatchInputs == SeqsUpTo(BatchPool, MaxMsgs)

ZeroArgs ==
    [proto |-> 0, status |-> 0, srcAddr |-> <<>>, destAddr |-> <<>>,
     srcPort |-> 0, destPort |-> 0, timeout |-> 0, mark |-> 0]

AddrInputs == {<<>>, Addr4a, Addr4b, Addr6, AddrBad}
ProtoInputs == {0, 6, 17}
PortInputs == {0, 80, 1234}

\* ---------------------------------------------------------------- the machine

Init ==
    /\ pc = "idle"
    /\ args = ZeroArgs
    /\ f = ZeroFlow
    /\ attrs = <<>>
    /\ g = ZeroFlow
    /\ err = Nil
    /\ seen = 0
    /\ nlm = <<>>
    /\ out = <<>>
    /\ calls = 0

\* a caller builds a Flow with NewFlow
NewFlowCall ==
    /\ pc = "idle"
    /\ \E proto \in ProtoInputs, status \in U32Inputs, srcAddr \in AddrInputs,
          destAddr \in AddrInputs, srcPort \in PortInputs, destPort \in PortInputs,
          timeout \in U32Inputs, mark \in ZoneInputs :
          /\ args' = [proto |-> proto, status |-> status, srcAddr |-> srcAddr,
                      destAddr |-> destAddr, srcPort |-> srcPort, destPort |-> destPort,
                      timeout |-> timeout, mark |-> mark]
          /\ f' = NewFlow(proto, status, srcAddr, destAddr, srcPort, destPort, timeout, mark)
    /\ pc' = "NewFlow"
    /\ UNCHANGED <<attrs, g, err, seen, nlm, out, calls>>

\* a caller fills in a Flow and marshals it
MarshalCall ==
    /\ pc = "idle"
    /\ \E to \in TupleInputs, tr \in TupleInputs, tm \in MasterInputs,
          timeout \in U32Inputs, status \in U32Inputs, mark \in U32Inputs, zone \in ZoneInputs,
          pi \in ProtoInfoInputs, h \in HelperInputs, so \in SeqAdjInputs, sr \in SeqAdjInputs,
          sp \in SynProxyInputs, k \in KernelOnlyInputs :
          LET fl == WithKernelOnly(
                      [ZeroFlow EXCEPT !.TupleOrig = to, !.TupleReply = tr, !.TupleMaster = tm,
                                       !.Timeout = timeout, !.Status.Value = status,
                                       !.Mark = mark, !.Zone = zone, !.ProtoInfo = pi,
                                       !.Helper = h, !.SeqAdjOrig = so, !.SeqAdjReply = sr,
                                       !.SynProxy = sp], k)
              r == Flow_marshal(fl)
          IN  /\ f' = fl
              /\ attrs' = r.attrs
              /\ err' = r.err
    /\ pc' = "marshal"
    /\ UNCHANGED <<args, g, seen, nlm, out, calls>>

\* after errNeedTuples the caller sets both tuples of the same Flow and marshals again
RemarshalCall ==
    /\ pc = "marshal"
    /\ err = errNeedTuples
    /\ \E to \in {T4, T6}, tr \in {T4r} :
          LET fl == [f EXCEPT !.TupleOrig = to, !.TupleReply = tr]
              r == Flow_marshal(fl)
          IN  /\ f' = fl
              /\ attrs' = r.attrs
              /\ err' = r.err
    /\ pc' = "remarshal"
    /\ UNCHANGED <<args, g, seen, nlm, out, calls>>

\* the attributes marshal produced are decoded into a fresh Flow
DecodeCall ==
    /\ pc = "marshal"
    /\ err = Nil
    /\ LET r == Flow_unmarshal(ZeroFlow, attrs)
       IN  /\ g' = r.f
           /\ err' = r.err
           /\ seen' = r.seen
    /\ pc' = "decode"
    /\ UNCHANGED <<args, f, attrs, nlm, out, calls>>

\* an attribute sequence is decoded into a fresh Flow
UnmarshalCall ==
    /\ pc = "idle"
    /\ \E as \in AttrInputs :
          LET r == Flow_unmarshal(ZeroFlow, as)
          IN  /\ attrs' = as
              /\ g' = r.f
              /\ err' = r.err
              /\ seen' = r.seen
    /\ pc' = "unmarshal"
    /\ UNCHANGED <<args, f, nlm, out, calls>>

\* one netlink message is decoded
UnmarshalFlowCall ==
    /\ pc = "idle"
    /\ \E m \in MsgInputs :
          LET r == unmarshalFlow(m)
          IN  /\ nlm' = <<m>>
              /\ g' = r.f
              /\ err' = r.err
    /\ pc' = "unmarshalFlow"
    /\ UNCHANGED <<args, f, attrs, seen, out, calls>>

\* a batch of netlink messages is decoded
UnmarshalFlowsCall ==
    /\ pc = "idle"
    /\ \E ms \in BatchInputs :
          LET r == unmarshalFlows(ms)
          IN  /\ nlm' = ms
              /\ out' = r.out
              /\ err' = r.err
              /\ calls' = r.calls
    /\ pc' = "unmarshalFlows"
    /\ UNCHANGED <<args, f, attrs, g, seen>>

NextNewFlow == NewFlowCall
NextMarshal == MarshalCall \/ RemarshalCall \/ DecodeCall
NextUnmarshal == UnmarshalCall \/ UnmarshalFlowCall
NextBatch == UnmarshalFlowsCall

SpecNewFlow == Init /\ [][NextNewFlow]_vars
SpecMarshal == Init /\ [][NextMarshal]_vars
SpecUnmarshal == Init /\ [][NextUnmarshal]_vars
SpecBatch == Init /\ [][NextBatch]_vars

\* ------------------------------------------------------------------ the claims

Types(as) == [i \in 1..Len(as) |-> as[i].Type]

Marshalled == pc \in {"marshal", "remarshal"}

\* a tuple that is unfilled, or filled with addresses of a valid length
MasterEncodable(fl) == ~Tuple_Filled(fl.TupleMaster) \/ ValidAddrs(fl.TupleMaster)

\* C1 as stated: marshal of a Flow with an unfilled TupleOrig or TupleReply returns
\* errNeedTuples and no attributes, whatever the other fields hold, and marshal of the
\* same Flow with both tuples set to filled, valid-length values succeeds.
C1_Original ==
    /\ (pc = "marshal" /\ (~Tuple_Filled(f.TupleOrig) \/ ~Tuple_Filled(f.TupleReply)))
          => (err = errNeedTuples /\ attrs = <<>>)
    /\ pc = "remarshal" => err = Nil

\* C1 amended: marshal of a Flow with an unfilled TupleOrig or TupleReply returns
\* errNeedTuples and no attributes, whatever the other fields hold; marshal of the same
\* Flow with both tuples set to filled, valid-length values succeeds unless TupleMaster
\* is filled with addresses of an invalid length, and then it returns the tuple's
\* encode error and no attributes.
C1_NeedTuples ==
    /\ (pc = "marshal" /\ (~Tuple_Filled(f.TupleOrig) \/ ~Tuple_Filled(f.TupleReply)))
          => (err = errNeedTuples /\ attrs = <<>>)
    /\ (pc = "remarshal" /\ MasterEncodable(f)) => (err = Nil /\ Len(attrs) >= 2)
    /\ (pc = "remarshal" /\ ~MasterEncodable(f)) => (err = errBadIPTuple /\ attrs = <<>>)

C1_Witness ==
    /\ pc = "remarshal"
    /\ err = Nil
    /\ Tuple_Filled(f.TupleMaster)
    /\ f.Zone # 0 /\ f.ID # 0

\* an attribute sequence with exactly one attribute of an unknown type, at index i,
\* all others being well-formed attributes of known types
OneUnknownAt(as, i) ==
    /\ i \in 1..Len(as)
    /\ as[i].Type \notin KnownTypes
    /\ \A j \in 1..Len(as) : j # i => as[j] \in WellFormedAttrs

\* C2: unmarshal of a sequence holding one attribute of an unknown type among well-formed
\* known ones fails with the unknown-attribute error carrying that type code, wherever
\* the unknown attribute stands.
C2_UnknownRejected ==
    pc = "unmarshal" =>
        \A i \in 1..Len(attrs) :
            OneUnknownAt(attrs, i) => err = errAttributeUnknown(attrs[i].Type)

C2_Witness ==
    /\ pc = "unmarshal"
    /\ Len(attrs) = 3
    /\ OneUnknownAt(attrs, 3)
    /\ attrs[1].Type # attrs[2].Type
    /\ err = errAttributeUnknown(attrs[3].Type)

\* index of the first attribute of an unknown type, 0 when there is none
FirstUnknown(as) ==
    IF \E i \in 1..Len(as) : as[i].Type \notin KnownTypes
    THEN CHOOSE i \in 1..Len(as) :
            /\ as[i].Type \notin KnownTypes
            /\ \A j \in 1..(i - 1) : as[j].Type \in KnownTypes
    ELSE 0

\* the first unknown attribute is reached: every attribute before it is well-formed
ReachesUnknown(as) ==
    /\ FirstUnknown(as) # 0
    /\ \A j \in 1..(FirstUnknown(as) - 1) : as[j] \in WellFormedAttrs

\* C3 as stated: when decode of a message hits an unknown attribute type, the Flow the
\* caller receives with the error carries none of the fields set by the attributes
\* before it.
C3_Original ==
    (pc = "unmarshalFlow" /\ ~nlm[1].Malformed /\ ReachesUnknown(nlm[1].Attrs))
        => (err # Nil /\ g = ZeroFlow)

\* C3 amended: when decode hits the first unknown attribute type it aborts with the
\* unknown-attribute error and dispatches on no attribute after it; it never returns
\* success, and the Flow value that accompanies the error holds exactly the fields set
\* by the attributes before the unknown one (it is not reset to the zero value).
C3_AbortsAtUnknown ==
    /\ (pc = "unmarshal" /\ ReachesUnknown(attrs)) =>
          /\ err = errAttributeUnknown(attrs[FirstUnknown(attrs)].Type)
          /\ seen = FirstUnknown(attrs)
          /\ g = Flow_unmarshal(ZeroFlow, SubSeq(attrs, 1, FirstUnknown(attrs) - 1)).f
    /\ (pc = "unmarshalFlow" /\ ~nlm[1].Malformed /\ ReachesUnknown(nlm[1].Attrs)) =>
          LET as == nlm[1].Attrs
          IN  /\ err = errAttributeUnknown(as[FirstUnknown(as)].Type)
              /\ g = Flow_unmarshal(ZeroFlow, SubSeq(as, 1, FirstUnknown(as) - 1)).f

C3_Witness ==
    /\ pc = "unmarshalFlow"
    /\ ~nlm[1].Malformed
    /\ Len(nlm[1].Attrs) = 3
    /\ ReachesUnknown(nlm[1].Attrs)
    /\ FirstUnknown(nlm[1].Attrs) = 2
    /\ nlm[1].Attrs[3].Type = "CTAMark"
    /\ g.ID # 0
    /\ g.Mark = 0

\* message i of the batch fails to decode
Fails(ms, i) == unmarshalFlow(ms[i]).err # Nil

\* index of the first failing message, 0 when every message decodes
FirstFailing(ms) ==
    IF \E i \in 1..Len(ms) : Fails(ms, i)
    THEN CHOOSE i \in 1..Len(ms) : Fails(ms, i) /\ \A j \in 1..(i - 1) : ~Fails(ms, j)
    ELSE 0

\* C4: when some message of the batch fails to decode, unmarshalFlows returns no Flows
\* and the error of the first failing message, and decodes no message after it.
C4_AllOrNothing ==
    (pc = "unmarshalFlows" /\ FirstFailing(nlm) # 0) =>
        /\ out = <<>>
        /\ err = unmarshalFlow(nlm[FirstFailing(nlm)]).err
        /\ err # Nil
        /\ calls = FirstFailing(nlm)

C4_Witness ==
    /\ pc = "unmarshalFlows"
    /\ Len(nlm) = 3
    /\ FirstFailing(nlm) = 2
    /\ Fails(nlm, 3)
    /\ unmarshalFlow(nlm[1]).f # ZeroFlow
    /\ unmarshalFlow(nlm[3]).err # err
    /\ out = <<>>

\* C5: for a batch of N well-formed messages unmarshalFlows returns no error and N
\* Flows, the i-th being the decode of the i-th message alone.
C5_OrderAndCount ==
    (pc = "unmarshalFlows" /\ FirstFailing(nlm) = 0) =>
        /\ err = Nil
        /\ Len(out) = Len(nlm)
        /\ calls = Len(nlm)
        /\ \A i \in 1..Len(nlm) : out[i] = Flow_unmarshal(ZeroFlow, nlm[i].Attrs).f

C5_Witness ==
    /\ pc = "unmarshalFlows"
    /\ Len(nlm) = 3
    /\ err = Nil
    /\ Len(out) = 3
    /\ out[1] # out[2] /\ out[2] # out[3] /\ out[1] # out[3]

\* Zone, Mark and Timeout zero and every composite sub-entity unfilled
OptionalsUnset(fl) ==
    /\ fl.Zone = 0 /\ fl.Mark = 0 /\ fl.Timeout = 0
    /\ ~ProtoInfo_Filled(fl.ProtoInfo)
    /\ ~Helper_Filled(fl.Helper)
    /\ ~Tuple_Filled(fl.TupleMaster)
    /\ ~SequenceAdjust_Filled(fl.SeqAdjOrig)
    /\ ~SequenceAdjust_Filled(fl.SeqAdjReply)
    /\ ~SynProxy_Filled(fl.SynProxy)

\* C6 as stated: a successful marshal of a Flow with Zone, Mark and Timeout zero and
\* all composite sub-entities unfilled yields exactly TupleOrig and TupleReply, for
\* every value of the remaining fields.
C6_Original ==
    (Marshalled /\ err = Nil /\ OptionalsUnset(f))
        => Types(attrs) = <<"CTATupleOrig", "CTATupleReply">>

\* C6 amended: marshal of a Flow with both tuples filled with valid-length addresses
\* and with Zone, Mark, Timeout and Status.Value zero and all composite sub-entities
\* unfilled succeeds and yields exactly TupleOrig and TupleReply, for every value of
\* the remaining fields.
C6_OnlyTuples ==
    (/\ Marshalled
     /\ Tuple_Filled(f.TupleOrig) /\ ValidAddrs(f.TupleOrig)
     /\ Tuple_Filled(f.TupleReply) /\ ValidAddrs(f.TupleReply)
     /\ OptionalsUnset(f)
     /\ f.Status.Value = 0)
        => /\ err = Nil
           /\ attrs = <<Tuple_MarshalAttribute(f.TupleOrig, "CTATupleOrig").attr,
                        Tuple_MarshalAttribute(f.TupleReply, "CTATupleReply").attr>>

C6_Witness ==
    /\ pc = "marshal"
    /\ err = Nil
    /\ OptionalsUnset(f)
    /\ f.Status.Value = 0
    /\ f.ID # 0 /\ f.Labels # <<>>
    /\ Len(attrs) = 2

\* every optional scalar nonzero and every composite sub-entity filled
AllPopulated(fl) ==
    /\ fl.Timeout # 0 /\ fl.Status.Value # 0 /\ fl.Mark # 0 /\ fl.Zone # 0
    /\ ProtoInfo_Filled(fl.ProtoInfo)
    /\ Helper_Filled(fl.Helper)
    /\ Tuple_Filled(fl.TupleMaster)
    /\ SequenceAdjust_Filled(fl.SeqAdjOrig)
    /\ SequenceAdjust_Filled(fl.SeqAdjReply)
    /\ SynProxy_Filled(fl.SynProxy)

\* the two Flows agree on every field marshal emits
SameEmitted(a, b) ==
    /\ a.TupleOrig = b.TupleOrig /\ a.TupleReply = b.TupleReply
    /\ a.Timeout = b.Timeout /\ a.Status = b.Status /\ a.Mark = b.Mark /\ a.Zone = b.Zone
    /\ a.ProtoInfo = b.ProtoInfo /\ a.Helper = b.Helper /\ a.TupleMaster = b.TupleMaster
    /\ a.SeqAdjOrig = b.SeqAdjOrig /\ a.SeqAdjReply = b.SeqAdjReply
    /\ a.SynProxy = b.SynProxy

C8_NewFlow ==
    pc = "NewFlow" =>
        f = [ZeroFlow EXCEPT
                !.TupleOrig = MkTuple(args.srcAddr, args.destAddr, args.proto,
                                      args.srcPort, args.destPort),
                !.TupleReply = MkTuple(args.destAddr, args.srcAddr, args.proto,
                                       args.destPort, args.srcPort),
                !.Status = [Value |-> args.status],
                !.Timeout = args.timeout,
                !.Mark = args.mark]

C8_Witness ==
    /\ pc = "NewFlow"
    /\ args.srcAddr = AddrBad /\ args.destAddr = Addr6
    /\ args.proto = 0
    /\ args.srcPort = 1234 /\ args.destPort = 80
    /\ f.TupleReply.Proto.SourcePort = 80
    /\ f.TupleReply.IP.SourceAddress = Addr6

\* the order marshal emits attribute types in
EmitOrder ==
    <<"CTATupleOrig", "CTATupleReply", "CTATimeout", "CTAStatus", "CTAMark", "CTAZone",
      "CTAProtoInfo", "CTAHelp", "CTATupleMaster", "CTASeqAdjOrig", "CTASeqAdjReply",
      "CTASynProxy">>

\* the predicate under which marshal emits type t for the Flow fl
Emits(fl, t) ==
    CASE t = "CTATupleOrig" -> TRUE
      [] t = "CTATupleReply" -> TRUE
      [] t = "CTATimeout" -> fl.Timeout # 0
      [] t = "CTAStatus" -> fl.Status.Value # 0
      [] t = "CTAMark" -> fl.Mark # 0
      [] t = "CTAZone" -> fl.Zone # 0
      [] t = "CTAProtoInfo" -> ProtoInfo_Filled(fl.ProtoInfo)
      [] t = "CTAHelp" -> Helper_Filled(fl.Helper)
      [] t = "CTATupleMaster" -> Tuple_Filled(fl.TupleMaster)
      [] t = "CTASeqAdjOrig" -> SequenceAdjust_Filled(fl.SeqAdjOrig)
      [] t = "CTASeqAdjReply" -> SequenceAdjust_Filled(fl.SeqAdjReply)
      [] t = "CTASynProxy" -> SynProxy_Filled(fl.SynProxy)

Perms(n) == {p \in [1..n -> 1..n] : \A i, j \in 1..n : p[i] = p[j] => i = j}

Permuted(as, p) == [i \in 1..Len(as) |-> as[p[i]]]

AllWellFormed(as) == \A i \in 1..Len(as) : as[i] \in WellFormedAttrs

DistinctTypes(as) == \A i, j \in 1..Len(as) : as[i].Type = as[j].Type => i = j

\* C10 as stated: decoding any permutation of a sequence of known, well-formed
\* attributes into a fresh Flow succeeds and yields the same Flow.
C10_Original ==
    (pc = "unmarshal" /\ AllWellFormed(attrs)) =>
        \A p \in Perms(Len(attrs)) :
            LET r == Flow_unmarshal(ZeroFlow, Permuted(attrs, p))
            IN  r.err = Nil /\ r.f = g

\* C10 amended: for every sequence of known, well-formed attributes in which no type
\* code occurs twice, decoding any permutation of it into a fresh Flow succeeds and
\* yields the same Flow as decoding the sequence itself.
C10_OrderIndependent ==
    (pc = "unmarshal" /\ AllWellFormed(attrs) /\ DistinctTypes(attrs)) =>
        /\ err = Nil
        /\ \A p \in Perms(Len(attrs)) :
              LET r == Flow_unmarshal(ZeroFlow, Permuted(attrs, p))
              IN  r.err = Nil /\ r.f = g

C10_Witness ==
    /\ pc = "unmarshal"
    /\ Len(attrs) = 3
    /\ AllWellFormed(attrs)
    /\ DistinctTypes(attrs)
    /\ g.Timeout # 0 /\ g.Mark # 0 /\ Tuple_Filled(g.TupleOrig)

====
